---------------------------- MODULE Spec2Model ----------------------------
(***************************************************************************)
(* SafeTrack (sms-tracker): the tracking-session lifecycle of src/app.py,  *)
(* the two tables of src/database.py and the SMS gateway of                *)
(* src/sms_service.py, as a state machine.                                 *)
(*                                                                         *)
(* The persisted state is what a committed SQLite transaction has written  *)
(* (sessions, locations).  Streamlit runs every browser session's script   *)
(* in a thread of its own, so save_location is modelled per writer, one    *)
(* step per database interaction; the other handlers touch the database    *)
(* in one transaction at most and are one action each.                     *)
(*                                                                         *)
(* Python values: None is the empty tuple, a present optional value x is   *)
(* <<x>>, a str is the tuple of its characters where the code edits it     *)
(* (phone numbers) and a TLA+ string where it does not, a dict is a record *)
(* whose DOMAIN is the set of keys present.                                *)
(***************************************************************************)
EXTENDS Integers, Sequences, FiniteSets, TLC

(* ------------------------------ bounds -------------------------------- *)

NumIds == 2
    \* how many values uuid.uuid4() can return
NumWriters == 2
    \* concurrent callers of save_location
MaxTime == 1
    \* the clock stops here
MaxLocs == 2
    \* save_location calls that may be started, finished or not
MaxDelay == 1
    \* ticks that may pass between two clock reads of one handler

(* ------------------------- program constants -------------------------- *)

TTL == 1
    \* timedelta(hours=24): the clock counts in units of 24 hours.  Only the
    \* order of instants, their equality and their distance in units of
    \* the lifetime matter to what is checked here.
LatMin == -90
LatMax == 90
LonMin == -180
LonMax == 180

server_url == "http://localhost:8501"

None == << >>
Some(x) == <<x>>

Ids == 1..NumIds
Writers == 1..NumWriters

\* What the callers pass as recipient_phone: already in "+..." form, and
\* with blanks and no "+".
Phones == { <<"+", "1", "5">>, <<" ", "1", " ", "5">> }

\* What the callers pass as (latitude, longitude, accuracy), in whole degrees.
Fixes ==
    { [latitude |-> 40, longitude |-> -74, accuracy |-> Some(25)],
      [latitude |-> 200, longitude |-> 0, accuracy |-> None] }

VARIABLES
    now,                \* datetime.now(timezone.utc), in ticks
    twilio_configured,  \* SMSService.twilio_configured
    sessions,           \* table tracking_sessions: id -> committed row
    locations,          \* table location_updates: committed rows, by rowid
    lock,               \* the writer holding SQLite's write lock, 0 if none
    pc,                 \* per writer: where its save_location call stands
    req,                \* per writer: the arguments of its call
    loaded,             \* per writer: tracking_session.status as loaded
    stamp,              \* per writer: the timestamp default it evaluated
    slres,              \* per writer: what its last save_location returned
    ret                 \* the last other handler's call: arguments and return

vars == <<now, twilio_configured, sessions, locations, lock,
          pc, req, loaded, stamp, slres, ret>>

Get(d, k, default) == IF k \in DOMAIN d THEN d[k] ELSE default

(* --------------------------- sms_service.py --------------------------- *)

\* SMSService.__init__: configured when the three credentials are set and
\* the test call with them succeeds.
SMSServiceInit(account_sid, auth_token, phone_number, fetch_ok) ==
    IF account_sid /\ auth_token /\ phone_number
    THEN fetch_ok
    ELSE FALSE

RECURSIVE LStrip(_)
LStrip(s) ==
    IF s # << >> /\ Head(s) = " " THEN LStrip(Tail(s)) ELSE s

RECURSIVE RStrip(_)
RStrip(s) ==
    IF s # << >> /\ s[Len(s)] = " " THEN RStrip(SubSeq(s, 1, Len(s) - 1)) ELSE s

\* recipient_phone.strip().replace(' ', ''), then '+' in front if absent.
FormatPhone(recipient_phone) ==
    LET stripped == RStrip(LStrip(recipient_phone))
        joined == SelectSeq(stripped, LAMBDA c : c # " ")
    IN  IF joined # << >> /\ Head(joined) = "+"
        THEN joined
        ELSE <<"+">> \o joined

\* f"{self.server_url}/?tracking_id={tracking_id}"
TrackingUrl(tracking_id) == <<server_url, "/?tracking_id=", tracking_id>>

DemoResultFormatted(recipient_phone, tracking_url) ==
    [success |-> TRUE,
     sms_sent |-> FALSE,
     tracking_url |-> tracking_url,
     message |-> "DEMO MODE: Copy this URL to share manually",
     debug_info |-> [formatted_phone |-> FormatPhone(recipient_phone),
                     demo_mode |-> TRUE]]

\* The dict returned when Twilio is not configured.
DemoResult(recipient_phone, tracking_url) ==
    [success |-> TRUE,
     sms_sent |-> FALSE,
     tracking_url |-> tracking_url,
     message |-> "DEMO MODE: Copy this URL to share manually",
     debug_info |-> [formatted_phone |-> recipient_phone,
                     demo_mode |-> TRUE]]

\* SMSService.send_tracking_request.  transport is what
\* client.messages.create does with the message: "accepted" or "rejected"
\* (it raises).  The value is the call as the gateway saw it: its
\* arguments, the number the message was addressed to if the transport was
\* tried, and the dict returned.
SmsSendTrackingRequest(recipient_phone, tracking_id, transport) ==
    LET tracking_url == TrackingUrl(tracking_id)
        call == [recipient_phone |-> recipient_phone,
                 tracking_id |-> tracking_id]
    IN  IF ~twilio_configured
        THEN call @@
             [to |-> None,
              sms_result |-> DemoResult(recipient_phone, tracking_url)]
        ELSE IF transport = "accepted"
        THEN call @@
             [to |-> Some(FormatPhone(recipient_phone)),
              sms_result |->
                  [success |-> TRUE,
                   message_sid |-> "SM1",
                   tracking_url |-> tracking_url,
                   message |-> "SMS sent successfully"]]
        ELSE call @@
             [to |-> Some(FormatPhone(recipient_phone)),
              sms_result |->
                  [success |-> FALSE,
                   error |-> "transport error",
                   tracking_url |-> tracking_url,
                   message |-> "SMS failed: transport error"]]

\* What client.messages.create can do, where it is called at all.
Transports == IF twilio_configured THEN {"accepted", "rejected"} ELSE {"unused"}

(* ------------------------------- Init --------------------------------- *)

NoReq == [tracking_id |-> 0, fix |-> [latitude |-> 0, longitude |-> 0, accuracy |-> None]]
NoResult == [returned |-> FALSE]

Init ==
    /\ now = 0
    /\ \E account_sid \in BOOLEAN, auth_token \in BOOLEAN,
          phone_number \in BOOLEAN, fetch_ok \in BOOLEAN :
          twilio_configured =
              SMSServiceInit(account_sid, auth_token, phone_number, fetch_ok)
    /\ sessions = << >>
    /\ locations = << >>
    /\ lock = 0
    /\ pc = [w \in Writers |-> "idle"]
    /\ req = [w \in Writers |-> NoReq]
    /\ loaded = [w \in Writers |-> ""]
    /\ stamp = [w \in Writers |-> 0]
    /\ slres = [w \in Writers |-> NoResult]
    /\ ret = [op |-> "none"]

(* ------------------------------ clock --------------------------------- *)

Tick ==
    /\ now < MaxTime
    /\ now' = now + 1
    /\ UNCHANGED <<twilio_configured, sessions, locations, lock,
                   pc, req, loaded, stamp, slres, ret>>

(* ---------------------- app.py: send_tracking_request ----------------- *)

GetOpt(d, k) == IF k \in DOMAIN d THEN Some(d[k]) ELSE None

\* The row the INSERT writes, without the columns no handler modelled here
\* reads back (sender_phone, recipient_phone, message).  expires_at is computed by the handler when it
\* builds the object (t_build); id, status and created_at are column
\* defaults, evaluated when the INSERT runs (t_insert).
NewSession(id, t_build, t_insert) ==
    [id |-> id,
     status |-> "pending",
     created_at |-> t_insert,
     expires_at |-> t_build + TTL]

\* The dict the handler returns after the gateway call.
BuildResult(tracking_id, sms_result) ==
    LET result ==
            [success |-> TRUE,
             tracking_id |-> tracking_id,
             tracking_url |-> Get(sms_result, "tracking_url", << >>),
             sms_sent |-> Get(sms_result, "success", FALSE),
             sms_message |-> Get(sms_result, "message", "Unknown status"),
             debug_info |->
                 [formatted_phone |-> GetOpt(sms_result, "formatted_phone"),
                  error |-> GetOpt(sms_result, "error")]]
    IN  IF ~sms_result.success
        THEN result @@
             [sms_error |-> Get(sms_result, "error", "Unknown error"),
              help_url |-> GetOpt(sms_result, "help_url")]
        ELSE result

\* except Exception as e: ... return {'success': False, 'error': str(e)}
ExceptionResult == [success |-> FALSE, error |-> "exception"]

\* The whole handler.  id is what uuid.uuid4() returns; delay is the time
\* between the handler's clock read and the INSERT's; raises is the
\* statement that raises, if one does: the commit (a constraint, a locked
\* or failing database), or, after the commit, session.refresh or
\* init_session_state; transport is what the SMS provider does.  The INSERT
\* also fails when the primary key is taken.  ret keeps the gateway call,
\* if the handler got that far, and the dict returned.
SendTrackingRequest ==
    \E id \in Ids, delay \in 0..MaxDelay,
       raises \in {"nothing", "commit", "refresh", "init_session_state"} :
        /\ now + delay <= MaxTime
        /\ now' = now + delay
        /\ IF raises = "commit" \/ id \in DOMAIN sessions
           THEN /\ UNCHANGED sessions
                /\ ret' = [op |-> "send_tracking_request",
                           gateway |-> None,
                           result |-> ExceptionResult]
           ELSE /\ sessions' = (id :> NewSession(id, now, now + delay)) @@ sessions
                /\ IF raises = "refresh"
                   THEN ret' = [op |-> "send_tracking_request",
                                gateway |-> None,
                                result |-> ExceptionResult]
                   ELSE \E recipient_phone \in Phones, transport \in Transports :
                        LET gateway == SmsSendTrackingRequest(
                                           recipient_phone, id, transport)
                        IN  ret' = [op |-> "send_tracking_request",
                                    gateway |-> Some(gateway),
                                    result |->
                                        IF raises = "nothing"
                                        THEN BuildResult(id, gateway.sms_result)
                                        ELSE ExceptionResult]
        /\ UNCHANGED <<twilio_configured, locations, lock,
                       pc, req, loaded, stamp, slres>>

(* ------------------------- app.py: the readers ------------------------ *)

\* session.query(TrackingSession).filter(id == tracking_id).first()
GetTrackingSession(tracking_id) ==
    IF tracking_id \in DOMAIN sessions THEN Some(sessions[tracking_id]) ELSE None

\* The rows in every order a sort by timestamp alone allows: SQL leaves
\* the order of rows with equal ORDER BY keys undefined.
OrderByTimestampAsc(rows) ==
    LET n == Len(rows)
        orders == { [i \in 1..n |-> rows[p[i]]] : p \in Permutations(1..n) }
    IN  { q \in orders :
            \A i \in 1..n : \A j \in 1..n :
                i < j => q[i].timestamp <= q[j].timestamp }

\* What get_locations(tracking_id) can return.  The GetLocations action
\* keeps the returned rows by their primary keys.
GetLocationsRows(tracking_id) ==
    OrderByTimestampAsc(
        SelectSeq(locations, LAMBDA r : r.session_id = tracking_id))

GetLocations ==
    \E tracking_id \in Ids : \E rows \in GetLocationsRows(tracking_id) :
        /\ ret' = [op |-> "get_locations",
                   tracking_id |-> tracking_id,
                   ids |-> [i \in 1..Len(rows) |-> rows[i].id]]
        /\ UNCHANGED <<now, twilio_configured, sessions, locations, lock,
                       pc, req, loaded, stamp, slres>>

\* What the Share Location page does with a tracking id: an error message,
\* or the form that accepts a location ("form").
SharePageOutcome(tracking_session) ==
    IF tracking_session = None
    THEN "Invalid tracking ID. Please check and try again."
    ELSE IF tracking_session[1].status = "expired"
    THEN "This tracking link has expired."
    ELSE "form"

ShowShareLocationPage ==
    \E tracking_id \in Ids :
        /\ ret' = [op |-> "show_share_location_page",
                   tracking_id |-> tracking_id,
                   outcome |-> SharePageOutcome(GetTrackingSession(tracking_id))]
        /\ UNCHANGED <<now, twilio_configured, sessions, locations, lock,
                       pc, req, loaded, stamp, slres>>

(* ------------------------ app.py: save_location ----------------------- *)

InvalidSessionReturnsSuccess == [returned |-> TRUE, success |-> TRUE]

\* return {'success': False, 'error': 'Invalid tracking session'}
InvalidSessionResult ==
    [returned |-> TRUE, success |-> FALSE, error |-> "Invalid tracking session"]

StatusNeverActivated(status) == status

StatusToggled(status) == IF status = "pending" THEN "active" ELSE "pending"

\* if tracking_session.status == 'pending': tracking_session.status = 'active'
StatusAfterUpdate(status) ==
    IF status = "pending" THEN "active" ELSE status

\* The call, up to session = db.get_session().
SaveLocationCall(w) ==
    \E tracking_id \in Ids, fix \in Fixes :
        /\ pc[w] = "idle"
        /\ Len(locations) + Cardinality({v \in Writers : pc[v] # "idle"})
               < MaxLocs
        /\ pc' = [pc EXCEPT ![w] = "called"]
        /\ req' = [req EXCEPT ![w] = [tracking_id |-> tracking_id, fix |-> fix]]
        /\ slres' = [slres EXCEPT ![w] = NoResult]
        /\ UNCHANGED <<now, twilio_configured, sessions, locations, lock,
                       loaded, stamp, ret>>

\* The lookup, and the return when it finds nothing.
SaveLocationQuery(w) ==
    /\ pc[w] = "called"
    /\ LET tracking_session == GetTrackingSession(req[w].tracking_id)
       IN  IF tracking_session = None
           THEN /\ slres' = [slres EXCEPT ![w] = InvalidSessionResult]
                /\ pc' = [pc EXCEPT ![w] = "idle"]
                /\ req' = [req EXCEPT ![w] = NoReq]
                /\ UNCHANGED loaded
           ELSE /\ loaded' = [loaded EXCEPT ![w] = tracking_session[1].status]
                /\ pc' = [pc EXCEPT ![w] = "loaded"]
                /\ UNCHANGED <<slres, req>>
    /\ UNCHANGED <<now, twilio_configured, sessions, locations, lock,
                   stamp, ret>>

\* session.commit(), first half: the flush.  A changed status is written
\* by an UPDATE, which takes SQLite's write lock for the transaction; then
\* the INSERT's timestamp default reads the clock.  Nothing is visible to
\* other connections before the COMMIT.
SaveLocationFlush(w) ==
    /\ pc[w] = "loaded"
    /\ IF StatusAfterUpdate(loaded[w]) # loaded[w]
       THEN lock = 0 /\ lock' = w
       ELSE UNCHANGED lock
    /\ stamp' = [stamp EXCEPT ![w] = now]
    /\ pc' = [pc EXCEPT ![w] = "flushed"]
    /\ UNCHANGED <<now, twilio_configured, sessions, locations,
                   req, loaded, slres, ret>>

\* The LocationUpdate the INSERT writes; id is the next rowid.
NewLocation(w) ==
    [id |-> Len(locations) + 1,
     session_id |-> req[w].tracking_id,
     latitude |-> req[w].fix.latitude,
     longitude |-> req[w].fix.longitude,
     accuracy |-> req[w].fix.accuracy,
     timestamp |-> stamp[w]]

CommittedSessionsStale(w) == sessions

CommittedSessionsAsLoaded(w) ==
    [sessions EXCEPT ![req[w].tracking_id].status = loaded[w]]

\* tracking_sessions after the transaction of writer w has committed.
CommittedSessions(w) ==
    [sessions EXCEPT ![req[w].tracking_id].status = StatusAfterUpdate(loaded[w])]

\* session.commit(), second half: the INSERT and the COMMIT, both writes
\* at once; return {'success': True}.
SaveLocationCommit(w) ==
    /\ pc[w] = "flushed"
    /\ lock \in {0, w}
    /\ sessions' = CommittedSessions(w)
    /\ locations' = Append(locations, NewLocation(w))
    /\ lock' = 0
    /\ slres' = [slres EXCEPT ![w] = [returned |-> TRUE, success |-> TRUE]]
    /\ pc' = [pc EXCEPT ![w] = "idle"]
    /\ loaded' = [loaded EXCEPT ![w] = ""]
    /\ stamp' = [stamp EXCEPT ![w] = 0]
    /\ req' = [req EXCEPT ![w] = NoReq]
    /\ UNCHANGED <<now, twilio_configured, ret>>

\* The flush or the commit raises (the database is locked, or fails):
\* session.rollback() and return {'success': False, 'error': str(e)}.
SaveLocationRollback(w) ==
    /\ pc[w] \in {"loaded", "flushed"}
    /\ lock' = IF lock = w THEN 0 ELSE lock
    /\ slres' = [slres EXCEPT ![w] =
                    [returned |-> TRUE, success |-> FALSE, error |-> "exception"]]
    /\ pc' = [pc EXCEPT ![w] = "idle"]
    /\ loaded' = [loaded EXCEPT ![w] = ""]
    /\ stamp' = [stamp EXCEPT ![w] = 0]
    /\ req' = [req EXCEPT ![w] = NoReq]
    /\ UNCHANGED <<now, twilio_configured, sessions, locations, ret>>

(* ------------------------------- Next --------------------------------- *)

Next ==
    \/ Tick
    \/ SendTrackingRequest
    \/ GetLocations
    \/ ShowShareLocationPage
    \/ \E w \in Writers : SaveLocationCall(w)
    \/ \E w \in Writers : SaveLocationQuery(w)
    \/ \E w \in Writers : SaveLocationFlush(w)
    \/ \E w \in Writers : SaveLocationCommit(w)
    \/ \E w \in Writers : SaveLocationRollback(w)

Spec == Init /\ [][Next]_vars

(* ------------------- the handlers taken on their own ------------------ *)

\* The sender's side alone: the database is empty and the only handler
\* called is send_tracking_request.
NextRequest ==
    \/ Tick
    \/ SendTrackingRequest

SpecRequest == Init /\ [][NextRequest]_vars

\* The recipients' side alone.  The database holds the sessions of some
\* send_tracking_request calls that committed at time 0 (any subset of the
\* ids, each row as NewSession builds it), the service runs without an SMS
\* transport, and the only handler called is save_location.
InitTracked ==
    /\ now = 0
    /\ twilio_configured = SMSServiceInit(FALSE, FALSE, FALSE, FALSE)
    /\ \E S \in SUBSET Ids : sessions = [id \in S |-> NewSession(id, 0, 0)]
    /\ locations = << >>
    /\ lock = 0
    /\ pc = [w \in Writers |-> "idle"]
    /\ req = [w \in Writers |-> NoReq]
    /\ loaded = [w \in Writers |-> ""]
    /\ stamp = [w \in Writers |-> 0]
    /\ slres = [w \in Writers |-> NoResult]
    /\ ret = [op |-> "none"]

NextLocation ==
    \/ Tick
    \/ \E w \in Writers : SaveLocationCall(w)
    \/ \E w \in Writers : SaveLocationQuery(w)
    \/ \E w \in Writers : SaveLocationFlush(w)
    \/ \E w \in Writers : SaveLocationCommit(w)
    \/ \E w \in Writers : SaveLocationRollback(w)

SpecLocation == InitTracked /\ [][NextLocation]_vars

(* ------------------------------ claims -------------------------------- *)

\* Writer w returns from save_location in this step, having found its
\* session.
SaveLocationReturns(w) == pc[w] \in {"loaded", "flushed"} /\ pc'[w] = "idle"

RowsOf(id) == { i \in 1..Len(locations) : locations[i].session_id = id }

\* C1: the first successful save_location call on a session changes its
\* status from 'pending' to 'active', and every later successful call, on
\* an 'active' session, leaves the status as it is.
C1_FirstLocationActivates ==
    [][\A w \in Writers :
        (SaveLocationReturns(w) /\ slres'[w].success) =>
            LET id == req[w].tracking_id
            IN  /\ sessions[id].status = "pending"
                     => sessions'[id].status = "active"
                /\ sessions[id].status = "active"
                     => sessions'[id].status = "active"]_vars

\* A call has returned success and its session, now 'active', holds more
\* than one update: a first call activated it and a later one found it
\* active.
C1_Witness ==
    \E w \in Writers, id \in DOMAIN sessions :
        /\ slres[w].returned
        /\ slres[w].success
        /\ sessions[id].status = "active"
        /\ Cardinality(RowsOf(id)) >= 2

InRange(fix) ==
    /\ LatMin <= fix.latitude /\ fix.latitude <= LatMax
    /\ LonMin <= fix.longitude /\ fix.longitude <= LonMax

\* C2: save_location answers a latitude outside [-90,90] or a longitude
\* outside [-180,180] with an error (InvalidCoordinates) and writes
\* nothing: the location_updates rows and every session's status are after
\* the call what they were before it.
C2_InvalidCoordinatesRejected ==
    [][\A w \in Writers :
        (pc[w] # "idle" /\ pc'[w] = "idle" /\ ~InRange(req[w].fix)) =>
            /\ ~slres'[w].success
            /\ locations' = locations
            /\ sessions' = sessions]_vars

\* C3: once the clock has passed a session's expires_at (and 24 hours
\* have passed since its created_at), the Share Location page reports the
\* link as expired instead of accepting input, though nothing ever wrote
\* status = 'expired'.
C3_ExpiredSessionsReportExpired ==
    [][(/\ ret' # ret
        /\ ret'.op = "show_share_location_page"
        /\ ret'.tracking_id \in DOMAIN sessions
        /\ now >= sessions[ret'.tracking_id].expires_at
        /\ now >= sessions[ret'.tracking_id].created_at + TTL)
           => ret'.outcome = "This tracking link has expired."]_vars

\* C4: every send_tracking_request call that succeeds has persisted a
\* session with status 'pending', expires_at = created_at + 24 hours, and
\* an id no session had before.
C4_NewSessionShape ==
    [][(/\ ret' # ret
        /\ ret'.op = "send_tracking_request"
        /\ ret'.result.success)
           => LET id == ret'.result.tracking_id
              IN  /\ id \notin DOMAIN sessions
                  /\ id \in DOMAIN sessions'
                  /\ sessions'[id].status = "pending"
                  /\ sessions'[id].expires_at = sessions'[id].created_at + TTL]_vars

\* C5: when the SMS transport fails, send_tracking_request leaves the new
\* session row persisted, reports the creation as successful together with
\* the SMS failure, and returns the tracking URL.
C5_GatewayFailureKeepsSession ==
    (/\ ret.op = "send_tracking_request"
     /\ ret.gateway # None
     /\ ~ret.gateway[1].sms_result.success)
        => /\ ret.gateway[1].tracking_id \in DOMAIN sessions
           /\ ret.result.success
           /\ ret.result.tracking_id = ret.gateway[1].tracking_id
           /\ ~ret.result.sms_sent
           /\ "sms_error" \in DOMAIN ret.result
           /\ ret.result.tracking_url = ret.gateway[1].sms_result.tracking_url

\* C6: save_location is atomic: in every persisted state a session's
\* status change to 'active' and a location_updates row of that session are
\* both present or both absent, also while transactions are open or have
\* been rolled back.
C6_StatusAndRowTogether ==
    /\ \A id \in DOMAIN sessions :
           sessions[id].status = "active" <=> RowsOf(id) # {}
    /\ \A i \in 1..Len(locations) : locations[i].session_id \in DOMAIN sessions

\* A writer has run its UPDATE and holds the write lock, its transaction
\* not committed, while another writer's call on a session was rolled back.
C6_Witness ==
    \E w \in Writers, v \in Writers :
        /\ pc[w] = "flushed"
        /\ lock = w
        /\ sessions[req[w].tracking_id].status = "pending"
        /\ slres[v].returned
        /\ ~slres[v].success
        /\ slres[v].error = "exception"

\* C7: get_locations returns a session's updates in non-decreasing
\* timestamp order, updates of equal timestamp in insertion order.
C7_OrderedWithTiesByInsertion ==
    ret.op = "get_locations" =>
        \A i \in 1..Len(ret.ids) : \A j \in 1..Len(ret.ids) :
            i < j =>
                LET a == locations[ret.ids[i]]
                    b == locations[ret.ids[j]]
                IN  /\ a.timestamp <= b.timestamp
                    /\ a.timestamp = b.timestamp => a.id < b.id

Rank(status) ==
    CASE status = "pending" -> 0
      [] status = "active" -> 1
      [] status = "expired" -> 2

\* C8: a session's status only moves forward in the order pending, active,
\* expired: no step takes it back, and no step removes the session.
C8_StatusMonotonic ==
    [][\A id \in DOMAIN sessions :
        /\ id \in DOMAIN sessions'
        /\ Rank(sessions'[id].status) >= Rank(sessions[id].status)]_vars

\* A writer that loaded its session as 'active' is about to commit, the
\* session having been activated by an earlier call.
C8_Witness ==
    \E w \in Writers :
        /\ pc[w] = "flushed"
        /\ loaded[w] = "active"
        /\ sessions[req[w].tracking_id].status = "active"

\* C9: with no SMS transport configured, the gateway returns the DemoMode
\* outcome whatever the phone and the session id: no message is sent, the
\* tracking URL is the base server URL with the session id as tracking_id
\* parameter, and the recipient phone is the one passed, not normalized.
C9_DemoMode ==
    (/\ ~twilio_configured
     /\ ret.op = "send_tracking_request"
     /\ ret.gateway # None)
        => LET g == ret.gateway[1]
           IN  /\ g.to = None
               /\ g.sms_result.success
               /\ ~g.sms_result.sms_sent
               /\ g.sms_result.debug_info.demo_mode
               /\ g.sms_result.message
                      = "DEMO MODE: Copy this URL to share manually"
               /\ g.sms_result.tracking_url
                      = <<"http://localhost:8501", "/?tracking_id=", g.tracking_id>>
               /\ g.tracking_id \in DOMAIN sessions
               /\ g.sms_result.debug_info.formatted_phone = g.recipient_phone

\* The gateway was called in demo mode with a phone that normalizing
\* would change.
C9_Witness ==
    /\ ~twilio_configured
    /\ ret.op = "send_tracking_request"
    /\ ret.gateway # None
    /\ ret.gateway[1].recipient_phone # FormatPhone(ret.gateway[1].recipient_phone)
    /\ ret.gateway[1].sms_result.debug_info.demo_mode

IsPrefix(s, t) ==
    /\ Len(s) <= Len(t)
    /\ SubSeq(t, 1, Len(s)) = s

\* C11: when save_location calls with valid coordinates run concurrently
\* on one 'pending' session, in any interleaving, each call that returns
\* success has left the session 'active' and its own update as a new last
\* row of the history, and no step removes or rewrites a row already
\* there: once both calls have returned success both updates are present.
C11_ConcurrentSavesBothKept ==
    [][/\ IsPrefix(locations, locations')
       /\ \A w \in Writers :
            (/\ pc[w] = "flushed"
             /\ InRange(req[w].fix)
             /\ slres'[w].returned
             /\ slres'[w].success)
            => /\ Len(locations') = Len(locations) + 1
               /\ LET row == locations'[Len(locations')]
                  IN  /\ row.session_id = req[w].tracking_id
                      /\ row.latitude = req[w].fix.latitude
                      /\ row.longitude = req[w].fix.longitude
                      /\ row.accuracy = req[w].fix.accuracy
               /\ req[w].tracking_id \in DOMAIN sessions'
               /\ sessions'[req[w].tracking_id].status = "active"]_vars

\* Both writers have returned success for one session, which is 'active'
\* and holds two updates with valid coordinates.
C11_Witness ==
    \E w \in Writers, v \in Writers, id \in DOMAIN sessions :
        /\ w # v
        /\ slres[w].returned /\ slres[w].success
        /\ slres[v].returned /\ slres[v].success
        /\ sessions[id].status = "active"
        /\ Cardinality(RowsOf(id)) >= 2
        /\ \A i \in RowsOf(id) : InRange(locations[i])

\* C12: send_tracking_request fails atomically: when the call returns a
\* failure result, no session row created by that call exists afterwards.
\* Only this handler adds a row to tracking_sessions, so a step that adds
\* one is a call of it, and ret' holds what the call returned.
C12_FailureLeavesNoSession ==
    [][(DOMAIN sessions' # DOMAIN sessions)
       => /\ ret'.op = "send_tracking_request"
          /\ ret'.result.success]_vars

\* C13: the result send_tracking_request returns says the SMS was sent
\* (sms_sent true) only when the transport accepted the message; with no
\* transport configured, or when the transport failed, it says not sent.
C13_SmsSentOnlyWhenAccepted ==
    (/\ ret.op = "send_tracking_request"
     /\ ret.gateway # None
     /\ "sms_sent" \in DOMAIN ret.result)
    => (ret.result.sms_sent
        <=> /\ twilio_configured
            /\ ret.gateway[1].to # None
            /\ "message_sid" \in DOMAIN ret.gateway[1].sms_result)

=============================================================================
